---- MODULE Spec2Model ----
(***************************************************************************)
(* Model of the render pipeline of src/visualizer.js (the Web Audio        *)
(* AudioVisualizer class, lines 391-929): the animation loop, the visual   *)
(* sample reducer, the colour mapper, the particle pool, the handlers that *)
(* change what the loop reads, and the audio source (file or microphone).  *)
(*                                                                         *)
(* Units.  Positions and velocities are kept in tenths of a pixel and a    *)
(* particle's life in hundredths, so that the code's steps (vy += 0.1,     *)
(* life -= 0.01) are integer steps.  The IEEE-754 sequence 1.0 - 0.01 - .. *)
(* first becomes <= 0 after the 100th subtraction (-7.5e-16), the same     *)
(* step at which the hundredths reach 0.  Fractions that the code prints   *)
(* into colour strings are kept as pairs <<numerator, denominator>>.       *)
(* JavaScript arrays are functions on 0..n-1.                              *)
(***************************************************************************)
EXTENDS Integers, Sequences, FiniteSets, TLC

VARIABLES
    analyser,           \* TRUE iff setupAudioAPI created this.analyser, this.dataArray, this.bufferLength
    bufferLength,       \* this.bufferLength (meaningful when analyser)
    dataArray,          \* this.dataArray : function on 0..bufferLength-1 (meaningful when analyser)
    currentVisualData,  \* this.currentVisualData : << >> while undefined, else a function on 0..127
    visualMode,         \* this.visualMode.value
    colorScheme,        \* this.colorScheme.value
    particles,          \* this.particles : sequence of particle records
    shadowBlur,         \* this.ctx.shadowBlur
    rafPending,         \* number of animation-frame callbacks requested and not yet run
    audio,              \* the signal the analyser node currently hears (environment)
    rng,                \* state of the Math.random generator (environment)
    frame,              \* what the last run of animate did (history, not read by the code)
    switched,           \* mode changes since the last run of animate: "no", or whether one
                        \* of them found the pool "empty" or holding "some" particles (history)
    changes,            \* number of colour-scheme and audio changes so far (history)
    poolAge,            \* runs of animate since the pool was last empty (history)
    canvas,             \* this.canvas : [width, height] in pixels
    shadowColor,        \* this.ctx.shadowColor : a colour, or "default" (transparent black)
    plotted,            \* the points of the two polylines of the last call of
                        \* drawWaveform made on its own (history)
    paints,             \* the fillRect calls of the last drawBars, each with the glow in
                        \* effect when it was made (history)
    quiet,              \* particle-field ticks run since the signal fell silent (history)
    audioSourceConnected,   \* this.audioSourceConnected
    microphoneStream,   \* this.microphoneStream : 0 for null, else the id of a MediaStream
    currentSource,      \* this.currentSource : "null", "file" or "microphone"
    audioSource,        \* this.audioSource : a source node, or NoNode for null
    graph,              \* the source nodes connected to the analyser (audio graph)
    liveStreams,        \* ids of the microphone streams whose tracks are not stopped
    micCalls,           \* the calls of startMicrophone suspended at an await, oldest first
    elementNode,        \* TRUE iff a MediaElementSource node was created for this.audio
    mediaDevices,       \* TRUE iff navigator.mediaDevices.getUserMedia exists
    contextState,       \* this.audioContext.state
    paused,             \* this.audio.paused
    loaded,             \* TRUE iff this.audio.src was set by loadAudioFile
    streams,            \* number of streams getUserMedia has granted so far
    micResult           \* how the last call of startMicrophone ended (history)

\* the drawing state and its history
surfaceVars == <<canvas, shadowColor, plotted, paints>>

\* the audio source and its environment
sourceVars == <<audioSourceConnected, microphoneStream, currentSource, audioSource, graph,
                liveStreams, micCalls, elementNode, mediaDevices, contextState, paused,
                loaded, streams, micResult>>

vars == <<analyser, bufferLength, dataArray, currentVisualData, visualMode, colorScheme,
          particles, shadowBlur, rafPending, audio, rng, frame, switched, changes, poolAge,
          surfaceVars, quiet, sourceVars>>

----------------------------------------------------------------------------
(* Bounds of the model *)

\* colour-scheme and audio changes in one run (they are followed while the
\* pool is empty: a run of particle ticks keeps its scheme and its signal)
MaxChanges == 1
\* runs of animate that are followed while the pool stays non-empty
MaxPoolAge == 101
\* longest raw frame of the reducer's own specification
MaxFrameLen == 4
\* calls of startMicrophone suspended at the same time
MaxMicCalls == 2
\* microphone streams granted in one run
MaxStreams == 2
\* runs of animate that are followed under a loud signal before it falls silent
MaxLoudTicks == 40
\* the count of silent particle-field ticks stops here
MaxQuietTicks == 101

----------------------------------------------------------------------------
(* Program constants *)

sampleSize == 128
fftSize == 2048
canvasWidth == 1000
canvasHeight == 400
\* the cap tested before spawning
maxParticles == 100
\* iterations of the spawn loop
spawnAttempts == 3
spawnThreshold == 80
\* life at creation, in hundredths (1.0)
initialLife == 100
\* life lost per update, in hundredths (0.01)
lifeDecay == 1
\* vy gained per update, in tenths (0.1)
gravity == 1

Modes == {"bars", "circular", "waveform", "particles"}
Schemes == {"rainbow", "fire", "ocean", "neon", "purple"}
\* a selector value that is none of the five cases of getColor
OtherScheme == "mono"

----------------------------------------------------------------------------
(* Arithmetic helpers *)

Min(a, b) == IF a <= b THEN a ELSE b

\* the rational n/d (n >= 0, d > 0) as a pair; a and b are the same number
\* iff SameFrac(a, b)
Frac(n, d) == <<n, d>>

SameFrac(a, b) == a[1] * b[2] = b[1] * a[2]

----------------------------------------------------------------------------
(* The Visual Sample Reducer: getVisualData, lines 660-674 *)

\* line 666 without the halving of bufferLength
binIndexWholeFrame(i, len) == (i * len) \div sampleSize

\* Math.floor((i / sampleSize) * (bufferLength / 2)) = floor(i*len / 256)
binIndex(i, len) == (i * len) \div (2 * sampleSize)

\* a typed-array read: undefined (here -1) outside 0..len-1
ReadRaw(arr, len, j) == IF j >= 0 /\ j < len THEN arr[j] ELSE -1

\* visualData[i] = Math.min(255, raw * 1.5) stored into a Uint8Array:
\* undefined * 1.5 is NaN and stores 0; a fraction is truncated.
Amplify(raw) == IF raw < 0 THEN 0 ELSE Min(2 * 255, 3 * raw) \div 2

\* the array getVisualData returns when this.dataArray exists
getVisualData(arr, len) ==
    [i \in 0..(sampleSize - 1) |-> Amplify(ReadRaw(arr, len, binIndex(i, len)))]

\* getVisualData raises a TypeError when this.dataArray is undefined
\* (this.dataArray[binIndex] on line 667)
getVisualDataThrows(hasAnalyser) == ~hasAnalyser

----------------------------------------------------------------------------
(* The Color Mapper: getColor, lines 677-710 *)

Color(fmt, c1, c2, c3) == [fmt |-> fmt, c1 |-> c1, c2 |-> c2, c3 |-> c3]

\* a and b print as the same colour string
SameColor(a, b) ==
    /\ a.fmt = b.fmt
    /\ SameFrac(a.c1, b.c1) /\ SameFrac(a.c2, b.c2) /\ SameFrac(a.c3, b.c3)

\* the switch of the file's earlier getColor (lines 143-175), with its tunings
colorForEarlier(index, total, value, scheme) ==
    LET hue == Frac(360 * index, total)
        v == Frac(value, 1)
        zero == Frac(0, 1)
    IN  CASE scheme = "rainbow" ->
               Color("hsl", hue, Frac(100, 1), Frac(50 * 255 + 30 * value, 255))
          [] scheme = "fire" ->
               Color("hsl", Frac(60 * value, 255), Frac(100, 1), Frac(40 * 255 + 30 * value, 255))
          [] scheme = "ocean" ->
               Color("hsl", Frac(180 * 255 + 60 * value, 255), Frac(70, 1),
                     Frac(40 * 255 + 40 * value, 255))
          [] scheme = "neon" ->
               CASE index % 3 = 0 -> Color("rgb", v, zero, v)
                 [] index % 3 = 1 -> Color("rgb", zero, v, v)
                 [] OTHER -> Color("rgb", v, v, zero)
          [] scheme = "purple" ->
               Color("hsl", Frac(270 * 255 + 60 * value, 255), Frac(80, 1),
                     Frac(40 * 255 + 30 * value, 255))
          [] OTHER -> Color("hsl", hue, Frac(100, 1), Frac(50, 1))

\* the switch of getColor on (index, total, value, scheme); intensity = value/255
colorFor(index, total, value, scheme) ==
    LET hue == Frac(360 * index, total)
        v == Frac(value, 1)
        zero == Frac(0, 1)
    IN  CASE scheme = "rainbow" ->
               Color("hsl", hue, Frac(100, 1), Frac(60 * 255 + 40 * value, 255))
          [] scheme = "fire" ->
               Color("hsl", Frac(60 * value, 255), Frac(100, 1), Frac(50 * 255 + 40 * value, 255))
          [] scheme = "ocean" ->
               Color("hsl", Frac(180 * 255 + 60 * value, 255), Frac(90, 1),
                     Frac(50 * 255 + 40 * value, 255))
          [] scheme = "neon" ->
               CASE index % 3 = 0 -> Color("rgb", v, zero, v)
                 [] index % 3 = 1 -> Color("rgb", zero, v, v)
                 [] OTHER -> Color("rgb", v, v, zero)
          [] scheme = "purple" ->
               Color("hsl", Frac(270 * 255 + 60 * value, 255), Frac(90, 1),
                     Frac(50 * 255 + 40 * value, 255))
          [] OTHER -> Color("hsl", hue, Frac(100, 1), Frac(50, 1))

\* (this.currentVisualData || this.dataArray)[index] || 0, lines 680-681
sampleValue(cvd, arr, len, index) ==
    IF DOMAIN cvd # {}
    THEN IF index \in DOMAIN cvd THEN cvd[index] ELSE 0
    ELSE IF ReadRaw(arr, len, index) < 0 THEN 0 ELSE ReadRaw(arr, len, index)

\* getColor(index, total) in a state where the fields hold cvd, arr, len and scheme
getColor(index, total, cvd, arr, len, scheme) ==
    colorFor(index, total, sampleValue(cvd, arr, len, index), scheme)

\* one entry of the history of getColor calls
ColorCall(index, total, cvd, arr, len, scheme) ==
    [index |-> index, total |-> total, color |-> getColor(index, total, cvd, arr, len, scheme)]

----------------------------------------------------------------------------
(* The environment: the analyser's signal and Math.random *)

AudioKinds == {"silence", "loud", "mixed", "impulse"}

frequencyBinCount == fftSize \div 2

\* what getByteFrequencyData writes for each kind of signal
FreqFrame(kind) ==
    CASE kind = "silence" -> [j \in 0..(frequencyBinCount - 1) |-> 0]
      [] kind = "loud" -> [j \in 0..(frequencyBinCount - 1) |-> 200]
      [] kind = "mixed" -> [j \in 0..(frequencyBinCount - 1) |-> IF j % 8 = 0 THEN 54 ELSE 53]
      [] kind = "ramp" -> [j \in 0..(frequencyBinCount - 1) |-> Min(255, j \div 2)]
      [] kind = "soft" -> [j \in 0..(frequencyBinCount - 1) |-> 53]
      [] OTHER -> [j \in 0..(frequencyBinCount - 1) |-> IF j = 0 THEN 255 ELSE 0]

\* what getByteTimeDomainData writes for each kind of signal
TimeFrame(kind) ==
    CASE kind = "silence" -> [j \in 0..(frequencyBinCount - 1) |-> 128]
      [] kind = "loud" -> [j \in 0..(frequencyBinCount - 1) |-> IF j % 2 = 0 THEN 28 ELSE 228]
      [] kind = "mixed" -> [j \in 0..(frequencyBinCount - 1) |-> IF j % 2 = 0 THEN 120 ELSE 136]
      [] kind = "soft" -> [j \in 0..(frequencyBinCount - 1) |-> IF j % 2 = 0 THEN 126 ELSE 130]
      [] OTHER -> [j \in 0..(frequencyBinCount - 1) |-> IF j = 0 THEN 255 ELSE 128]

\* Math.random is a seeded generator whose seed the program does not choose.
\* The model's generator returns x/10 and steps x by the stride c (mod 10);
\* the stride is prime to 10, so a run of draws takes every value 0, 0.1, ..,
\* 0.9, and Init draws the phase x.
Strides == {3}
Seeds == [x : {0, 5}, c : Strides]

\* the value (in tenths) returned by the n-th call (n = 0, 1, ..) from state r
Random(r, n) == (r.x + n * r.c) % 10

\* the generator's state after n calls
Advance(r, n) == [r EXCEPT !.x = (r.x + n * r.c) % 10]

----------------------------------------------------------------------------
(* The particle strategy: drawParticles, lines 833-888 *)

\* the object pushed on lines 842-850, built from five calls of Math.random
\* starting with call n; t is Math.random() in tenths
newParticle(r, n, vd, arr, len, scheme) ==
    [x     |-> Random(r, n) * canvasWidth,
     y     |-> canvasHeight * 10,
     vx    |-> 4 * Random(r, n + 1) - 20,
     vy    |-> -(5 * Random(r, n + 2) + 30),
     size  |-> 4 * Random(r, n + 3) + 20,
     color |-> getColor((Random(r, n + 4) * sampleSize) \div 10, sampleSize, vd, arr, len, scheme),
     life  |-> initialLife,
     age   |-> 0]

\* the loop of lines 839-852 from iteration i on: ps is the pool, n the number
\* of Math.random calls made so far in this call, log the values sampled so far
RECURSIVE spawnLoop(_, _, _, _, _, _, _, _, _)
spawnLoop(i, ps, n, log, r, vd, arr, len, scheme) ==
    IF i >= spawnAttempts
    THEN [ps |-> ps, n |-> n, log |-> log]
    ELSE LET value == vd[(Random(r, n) * sampleSize) \div 10]
         IN  IF value > spawnThreshold
             THEN spawnLoop(i + 1, Append(ps, newParticle(r, n + 1, vd, arr, len, scheme)),
                            n + 6,
                            Append(log, [value |-> value, pushed |-> TRUE,
                                         cidx |-> (Random(r, n + 5) * sampleSize) \div 10]),
                            r, vd, arr, len, scheme)
             ELSE spawnLoop(i + 1, ps, n + 1,
                            Append(log, [value |-> value, pushed |-> FALSE, cidx |-> -1]),
                            r, vd, arr, len, scheme)

\* the spawn loop without the test of line 838
spawnUncapped(ps, r, vd, arr, len, scheme) ==
    spawnLoop(0, ps, 0, << >>, r, vd, arr, len, scheme)

\* lines 838-853: the cap is tested once, before the loop
spawn(ps, r, vd, arr, len, scheme) ==
    IF Len(ps) < maxParticles
    THEN spawnLoop(0, ps, 0, << >>, r, vd, arr, len, scheme)
    ELSE [ps |-> ps, n |-> 0, log |-> << >>]

\* lines 859-862
updateParticle(p) ==
    [p EXCEPT !.x = p.x + p.vx, !.y = p.y + p.vy, !.vy = p.vy + gravity,
              !.life = p.life - lifeDecay, !.age = p.age + 1]

\* line 864 with < in place of <=
isDeadStrict(p) == p.life < 0 \/ p.y > canvasHeight * 10

\* line 864 without the test of y
isDeadLifeOnly(p) == p.life <= 0

\* line 864 without the test of life
isDeadOffSurfaceOnly(p) == p.y > canvasHeight * 10

\* the test of line 864
isDead(p) == p.life <= 0 \/ p.y > canvasHeight * 10

\* ps without its i-th element: this.particles.splice(i - 1, 1)
splice(ps, i) == SubSeq(ps, 1, i - 1) \o SubSeq(ps, i + 1, Len(ps))

\* an iteration that, after a removal, steps over the particle below the
\* removed one
updateStepSkipping(st) ==
    IF st.i < 1 THEN st
    ELSE LET p == updateParticle(st.ps[st.i])
         IN  IF isDead(p)
             THEN [ps |-> splice(st.ps, st.i), i |-> st.i - 2,
                   culled |-> Append(st.culled, p), painted |-> st.painted]
             ELSE [ps |-> [st.ps EXCEPT ![st.i] = p], i |-> st.i - 1,
                   culled |-> st.culled, painted |-> st.painted + 1]

\* One iteration of the loop of lines 856-877 at (1-based) index st.i:
\* st.ps is the pool, st.culled the particles removed so far, st.painted the
\* number painted so far.  Below index 1 the loop has ended.
updateStep(st) ==
    IF st.i < 1 THEN st
    ELSE LET p == updateParticle(st.ps[st.i])
         IN  IF isDead(p)
             THEN [ps |-> splice(st.ps, st.i), i |-> st.i - 1,
                   culled |-> Append(st.culled, p), painted |-> st.painted]
             ELSE [ps |-> [st.ps EXCEPT ![st.i] = p], i |-> st.i - 1,
                   culled |-> st.culled, painted |-> st.painted + 1]

\* eight consecutive iterations (this keeps the evaluation of the loop shallow)
updateSteps(st) ==
    updateStep(updateStep(updateStep(updateStep(
    updateStep(updateStep(updateStep(updateStep(st))))))))

\* the loop of lines 856-877 from index st.i down to 1
RECURSIVE updateRest(_)
updateRest(st) == IF st.i < 1 THEN st ELSE updateRest(updateSteps(st))

\* the whole loop: for (let i = this.particles.length - 1; i >= 0; i--)
updateLoop(ps) == updateRest([ps |-> ps, i |-> Len(ps), culled |-> << >>, painted |-> 0])

----------------------------------------------------------------------------
(* The render strategies.  Each returns what the call leaves behind:        *)
(*   threw  - the call raised (a TypeError on the undefined this.dataArray) *)
(*   cvd    - this.currentVisualData        ps   - this.particles           *)
(*   blur   - this.ctx.shadowBlur           n    - Math.random calls made   *)
(*   colors - the getColor calls made, in order, each with its result (a    *)
(*            call repeated with the same arguments is listed once)         *)
(*   log    - the values sampled by the spawn loop                          *)
(*   culled - the particles removed by the update loop                      *)

Outcome(threw, cvd, ps, blur, n, colors, log, culled) ==
    [threw |-> threw, cvd |-> cvd, ps |-> ps, blur |-> blur, n |-> n,
     colors |-> colors, log |-> log, culled |-> culled]

\* a strategy that raised before it changed anything
Thrown(cvd, ps, blur) == Outcome(TRUE, cvd, ps, blur, 0, << >>, << >>, << >>)

\* the getColor(i, bufferLength) calls of a loop over all of visualData
barColors(vd, arr, len, scheme) ==
    [k \in 1..sampleSize |-> ColorCall(k - 1, sampleSize, vd, arr, len, scheme)]

\* the getColor calls of the particles pushed by the spawn loop (line 848)
spawnColors(log, vd, arr, len, scheme) ==
    LET pushed == SelectSeq(log, LAMBDA e : e.pushed)
    IN  [k \in 1..Len(pushed) |-> ColorCall(pushed[k].cidx, sampleSize, vd, arr, len, scheme)]

\* drawBars, lines 713-736: every iteration sets shadowBlur = 15
drawBars(hasAnalyser, cvd, arr, len, scheme, ps, blur) ==
    IF getVisualDataThrows(hasAnalyser) THEN Thrown(cvd, ps, blur)
    ELSE LET vd == getVisualData(arr, len)
         IN  Outcome(FALSE, vd, ps, 15, 0, barColors(vd, arr, len, scheme), << >>, << >>)

\* drawCircular, lines 739-780: every iteration sets shadowBlur = 10
drawCircular(hasAnalyser, cvd, arr, len, scheme, ps, blur) ==
    IF getVisualDataThrows(hasAnalyser) THEN Thrown(cvd, ps, blur)
    ELSE LET vd == getVisualData(arr, len)
         IN  Outcome(FALSE, vd, ps, 10, 0, barColors(vd, arr, len, scheme), << >>, << >>)

\* drawWaveform, lines 783-830: plots this.dataArray itself and never calls
\* getVisualData, so getColor reads whatever this.currentVisualData holds.
\* this.dataArray.length raises when the array is undefined.
drawWaveform(hasAnalyser, cvd, arr, len, scheme, ps, blur) ==
    IF ~hasAnalyser THEN Thrown(cvd, ps, blur)
    ELSE Outcome(FALSE, cvd, ps, 20, 0,
                 <<ColorCall(0, len, cvd, arr, len, scheme),
                   ColorCall(len \div 2, len, cvd, arr, len, scheme),
                   ColorCall(len - 1, len, cvd, arr, len, scheme)>>,
                 << >>, << >>)

\* line 792 with the byte scaled by its largest value
waveformVByteScale(raw) == Frac(raw, 255)

\* line 792: v = this.dataArray[i] / 128.0
waveformV(raw) == Frac(raw, 128)

\* line 793: y = (v * this.canvas.height) / 2
mainY(raw, height) == LET v == waveformV(raw) IN Frac(v[1] * height, 2 * v[2])

\* line 817: y = this.canvas.height - (v * this.canvas.height) / 2
mirrorY(raw, height) ==
    LET v == waveformV(raw) IN Frac(2 * v[2] * height - v[1] * height, 2 * v[2])

\* nothing plotted
NoPlot == [main |-> << >>, mirror |-> << >>]

\* the points of the loops of lines 791-801 and 815-825; point i lies at
\* x = i * sliceWidth
waveformPoints(arr, len, cv) ==
    [main   |-> [k \in 1..len |-> [i |-> k - 1, y |-> mainY(arr[k - 1], cv.height)]],
     mirror |-> [k \in 1..len |-> [i |-> k - 1, y |-> mirrorY(arr[k - 1], cv.height)]]]

\* the shadowColor of a fresh or reset 2D context: transparent black
defaultShadowColor == Color("rgba", Frac(0, 1), Frac(0, 1), Frac(0, 1))

\* the fillRect calls of the loop of lines 719-735, entered with the glow
\* (blur, sc): bar i is filled on line 728 with the gradient whose base is
\* getColor(i) and with the glow then in effect; lines 731-732 set the glow
\* to getColor(i) after the fill
barPaints(vd, arr, len, scheme, blur, sc) ==
    [k \in 1..sampleSize |->
        [index  |-> k - 1,
         value  |-> vd[k - 1],
         base   |-> getColor(k - 1, sampleSize, vd, arr, len, scheme),
         blur   |-> IF k = 1 THEN blur ELSE 15,
         shadow |-> IF k = 1 THEN sc
                    ELSE getColor(k - 2, sampleSize, vd, arr, len, scheme)]]

\* this.ctx.shadowColor when the strategy of the mode returns with outcome
\* out: the last assignment of lines 732, 768, 810 or 874 (the update loop
\* runs backwards, so the last particle painted is the first of the pool)
shadowColorAfter(mode, out, sc, arr, len, scheme) ==
    CASE out.threw -> sc
      [] mode \in {"bars", "circular"} ->
           getColor(sampleSize - 1, sampleSize, out.cvd, arr, len, scheme)
      [] mode = "waveform" -> getColor(len \div 2, len, out.cvd, arr, len, scheme)
      [] mode = "particles" -> IF out.ps = << >> THEN sc ELSE out.ps[1].color
      [] OTHER -> sc

\* drawParticles, lines 833-888: spawn, then update and cull, then the
\* background bars; a painted particle sets shadowBlur = 15
drawParticles(hasAnalyser, cvd, arr, len, scheme, ps, blur, r) ==
    IF getVisualDataThrows(hasAnalyser) THEN Thrown(cvd, ps, blur)
    ELSE LET vd == getVisualData(arr, len)
             sp == spawn(ps, r, vd, arr, len, scheme)
             up == updateLoop(sp.ps)
         IN  Outcome(FALSE, vd, up.ps, IF up.painted > 0 THEN 15 ELSE blur, sp.n,
                     spawnColors(sp.log, vd, arr, len, scheme)
                       \o barColors(vd, arr, len, scheme),
                     sp.log, up.culled)

\* the switch of lines 913-927
dispatch(mode, hasAnalyser, cvd, arr, len, scheme, ps, blur, r) ==
    CASE mode = "bars" -> drawBars(hasAnalyser, cvd, arr, len, scheme, ps, blur)
      [] mode = "circular" -> drawCircular(hasAnalyser, cvd, arr, len, scheme, ps, blur)
      [] mode = "waveform" -> drawWaveform(hasAnalyser, cvd, arr, len, scheme, ps, blur)
      [] mode = "particles" -> drawParticles(hasAnalyser, cvd, arr, len, scheme, ps, blur, r)
      [] OTHER -> Outcome(FALSE, cvd, ps, blur, 0, << >>, << >>, << >>)

\* the name under which the dispatched strategy appears in frame.ops
strategyOf(mode) ==
    CASE mode = "bars" -> "drawBars"
      [] mode = "circular" -> "drawCircular"
      [] mode = "waveform" -> "drawWaveform"
      [] mode = "particles" -> "drawParticles"
      [] OTHER -> "none"

----------------------------------------------------------------------------
(* The animation loop: animate, lines 891-928 *)

\* lines 895-903 with the frequency data fetched in every mode
fetchedFrequencyOnly(mode, hasAnalyser, arr, sig) ==
    IF ~hasAnalyser THEN arr ELSE FreqFrame(sig)

\* lines 895-903: the frame the analyser writes into this.dataArray
fetched(mode, hasAnalyser, arr, sig) ==
    IF ~hasAnalyser THEN arr
    ELSE IF mode = "waveform" THEN TimeFrame(sig) ELSE FreqFrame(sig)

\* the steps of animate in the order the code performs them
stepsOf(mode, hasAnalyser) ==
    <<"requestAnimationFrame">>
    \o (IF ~hasAnalyser THEN << >>
        ELSE IF mode = "waveform" THEN <<"getByteTimeDomainData">>
        ELSE <<"getByteFrequencyData">>)
    \o <<"fillRect", "shadowBlur=0", strategyOf(mode)>>

\* requestAnimationFrame as the last statement of animate: skipped by a throw
pendingAfterLate(pending, threw) ==
    (IF pending > 0 THEN pending - 1 ELSE 0) + (IF threw THEN 0 ELSE 1)

\* the frame requests pending when animate returns or throws: the callback
\* that ran is no longer pending (the constructor's direct call consumed
\* none) and line 892, the first statement, has requested the next one
pendingAfter(pending, threw) == (IF pending > 0 THEN pending - 1 ELSE 0) + 1

NoFrame ==
    [mode |-> "none", scheme |-> "none", threw |-> FALSE, ops |-> << >>, colors |-> << >>,
     log |-> << >>, sizeBefore |-> 0, culled |-> << >>, afterSwitch |-> "no",
     total |-> 0]

\* a source node of the audio graph: the MediaElementSource of this.audio,
\* or the MediaStreamSource of the stream with the given id
NoNode == [kind |-> "none", stream |-> 0]
FileNode == [kind |-> "file", stream |-> 0]
MicNode(id) == [kind |-> "mic", stream |-> id]

\* no call of startMicrophone has ended since the last step
NoResult == [outcome |-> "none", before |-> << >>]

\* The audio source after setupAudioAPI (lines 453-456) and before any
\* listener has run: nothing connected, no file loaded, the element paused.
\* (Without an audio context the four fields stay undefined; the code only
\* tests them for truth, as it does false and null.)
SetupSource ==
    /\ audioSourceConnected = FALSE
    /\ microphoneStream = 0
    /\ currentSource = "null"
    /\ audioSource = NoNode
    /\ graph = {}
    /\ liveStreams = {}
    /\ micCalls = << >>
    /\ elementNode = FALSE
    /\ paused = TRUE
    /\ loaded = FALSE
    /\ streams = 0
    /\ micResult = NoResult

\* Construction, lines 392-417, up to the call of animate on line 419.
\* setupAudioAPI either creates the analyser and a zeroed data array of
\* frequencyBinCount bytes, or catches its error and leaves them undefined.
\* The selectors start at their first option (README.md lists them in order)
\* and nothing is connected to the analyser yet, so it hears silence.
Init ==
    /\ analyser \in BOOLEAN
    /\ bufferLength = IF analyser THEN frequencyBinCount ELSE 0
    /\ dataArray = IF analyser THEN [j \in 0..(frequencyBinCount - 1) |-> 0] ELSE << >>
    /\ currentVisualData = << >>
    /\ visualMode = "bars"
    /\ colorScheme = "rainbow"
    /\ particles = << >>
    /\ shadowBlur = 0
    /\ rafPending = 0
    /\ audio = "silence"
    /\ rng \in Seeds
    /\ frame = NoFrame
    /\ switched = "no"
    /\ changes = 0
    /\ poolAge = 0
    /\ canvas = [width |-> canvasWidth, height |-> canvasHeight]
    /\ shadowColor = defaultShadowColor
    /\ plotted = NoPlot
    /\ paints = << >>
    /\ quiet = 0
    /\ SetupSource /\ mediaDevices = TRUE /\ contextState = "suspended"

\* The body of animate.
Tick ==
    /\ \E arr \in {fetched(visualMode, analyser, dataArray, audio)} :
       \E out \in {dispatch(visualMode, analyser, currentVisualData, arr, bufferLength,
                            colorScheme, particles, 0, rng)} :
           /\ rafPending' = pendingAfter(rafPending, out.threw)
           /\ dataArray' = arr
           /\ currentVisualData' = out.cvd
           /\ particles' = out.ps
           /\ shadowBlur' = out.blur
           /\ rng' = Advance(rng, out.n)
           /\ frame' = [mode |-> visualMode, scheme |-> colorScheme, threw |-> out.threw,
                        ops |-> stepsOf(visualMode, analyser), colors |-> out.colors,
                        log |-> out.log, sizeBefore |-> Len(particles),
                        culled |-> out.culled, afterSwitch |-> switched,
                        total |-> IF visualMode = "waveform" THEN bufferLength ELSE sampleSize]
           /\ shadowColor' = shadowColorAfter(visualMode, out, shadowColor, arr, bufferLength,
                                              colorScheme)
           /\ plotted' = NoPlot
           /\ paints' = IF visualMode = "bars" /\ ~out.threw
                        THEN barPaints(out.cvd, arr, bufferLength, colorScheme, 0, shadowColor)
                        ELSE << >>
    /\ switched' = "no"
    /\ poolAge' = IF particles' = << >> THEN 0 ELSE poolAge + 1
    /\ UNCHANGED <<analyser, bufferLength, visualMode, colorScheme, audio, changes, canvas>>
    /\ UNCHANGED sourceVars

\* One run of animate: the constructor's call (rafPending = 0) or a frame callback.
Animate ==
    /\ poolAge < MaxPoolAge
    /\ Tick
    /\ UNCHANGED quiet

\* The 'change' listener without line 496.
VisualModeChangeKeepsPool ==
    /\ rafPending > 0
    /\ \E m \in Modes \ {visualMode} : visualMode' = m
    /\ switched' = IF particles # << >> \/ switched = "some" THEN "some" ELSE "empty"
    /\ frame' = NoFrame
    /\ plotted' = NoPlot /\ paints' = << >>
    /\ UNCHANGED <<canvas, shadowColor, quiet, sourceVars>>
    /\ UNCHANGED <<analyser, bufferLength, dataArray, currentVisualData, colorScheme,
                   particles, shadowBlur, rafPending, audio, rng, changes, poolAge>>

\* The 'change' listener of the mode selector, lines 495-497.
VisualModeChange ==
    /\ rafPending > 0
    /\ \E m \in Modes \ {visualMode} :
          /\ visualMode' = m
          /\ particles' = << >>
    /\ switched' = IF particles # << >> \/ switched = "some" THEN "some" ELSE "empty"
    /\ poolAge' = 0
    /\ frame' = NoFrame
    /\ plotted' = NoPlot /\ paints' = << >>
    /\ UNCHANGED <<canvas, shadowColor, quiet, sourceVars>>
    /\ UNCHANGED <<analyser, bufferLength, dataArray, currentVisualData, colorScheme,
                   shadowBlur, rafPending, audio, rng, changes>>

\* The user picks another colour scheme; the program has no listener for it.
ColorSchemeChange ==
    /\ rafPending > 0
    /\ changes < MaxChanges
    /\ particles = << >>
    /\ \E s \in Schemes \ {colorScheme} : colorScheme' = s
    /\ changes' = changes + 1
    /\ frame' = NoFrame
    /\ plotted' = NoPlot /\ paints' = << >>
    /\ UNCHANGED <<canvas, shadowColor, quiet, sourceVars>>
    /\ UNCHANGED <<analyser, bufferLength, dataArray, currentVisualData, visualMode,
                   particles, shadowBlur, rafPending, audio, rng, switched, poolAge>>

\* The signal at the analyser changes between two frames.
AudioChange ==
    /\ rafPending > 0
    /\ changes < MaxChanges
    /\ particles = << >>
    /\ \E k \in AudioKinds \ {audio} : audio' = k
    /\ changes' = changes + 1
    /\ frame' = NoFrame
    /\ plotted' = NoPlot /\ paints' = << >>
    /\ UNCHANGED <<canvas, shadowColor, quiet, sourceVars>>
    /\ UNCHANGED <<analyser, bufferLength, dataArray, currentVisualData, visualMode,
                   colorScheme, particles, shadowBlur, rafPending, rng, switched, poolAge>>

Next == Animate \/ VisualModeChange \/ ColorSchemeChange \/ AudioChange

Spec == Init /\ [][Next]_vars

----------------------------------------------------------------------------
(* Properties of the animation loop, checked under Spec *)

\* a run of animate has just finished (no handler has run since)
Ticked == frame.mode # "none"

\* the number of particles the last run of animate pushed
Pushed == Cardinality({k \in 1..Len(frame.log) : frame.log[k].pushed})

\* C1: the pool holds at most 100 particles at the end of every tick.
C1_PoolAtMostCap == Len(particles) <= 100

\* C2: every change of the render mode empties the pool before the next tick
\* runs, so the first particle-field tick after a change starts with an empty pool.
C2_ModeChangeClearsPool ==
    /\ [][visualMode' # visualMode => particles' = << >>]_vars
    /\ [](Ticked /\ frame.mode = "particles" /\ frame.afterSwitch # "no"
             => frame.sizeBefore = 0)

\* C2 happens: a particle-field tick ran right after mode changes that found particles
C2_Witness ==
    frame.mode = "particles" /\ frame.afterSwitch = "some" /\ frame.sizeBefore = 0

\* C3: a particle's life is 1.0 less 0.01 for every update it received; none
\* stays in the pool after 100 updates, and a particle removed while it is not
\* below the bottom edge is removed by its 100th update, with life 0.
C3_LifeOfHundredTicks ==
    /\ \A i \in 1..Len(particles) :
          /\ particles[i].life = 100 - particles[i].age
          /\ particles[i].age < 100
    /\ \A k \in 1..Len(frame.culled) :
          /\ frame.culled[k].life = 100 - frame.culled[k].age
          /\ frame.culled[k].y <= 4000 => frame.culled[k].age = 100

\* C3 happens: a particle that stayed above the bottom edge was removed by its 100th update
C3_Witness ==
    \E k \in 1..Len(frame.culled) :
        frame.culled[k].y <= 4000 /\ frame.culled[k].age = 100 /\ frame.culled[k].life = 0

\* C5: the reducer raises nothing when the data array was never created.
C5_ReducerNeverRaises ==
    Ticked /\ frame.mode \in {"bars", "circular", "particles"} => ~frame.threw

\* C6: every step, also a tick that raised, leaves exactly one next tick scheduled.
C6_NextTickScheduled == [][rafPending' = 1]_vars

\* C6 happens: a tick raised and the next tick is scheduled all the same
C6_Witness == Ticked /\ frame.threw /\ rafPending = 1

\* the order (a) fetch, (b) fade, (c) reset, (d) the strategy of the mode
StepsInOrder(fetch) ==
    frame.ops = <<"requestAnimationFrame">> \o fetch
                \o <<"fillRect", "shadowBlur=0", strategyOf(frame.mode)>>

\* C7 as stated: every tick fetches a frame (time-domain exactly for
\* waveform), then fades, then resets the glow, then runs the mode's strategy.
C7_EveryTickFetches ==
    Ticked =>
        StepsInOrder(IF frame.mode = "waveform" THEN <<"getByteTimeDomainData">>
                     ELSE <<"getByteFrequencyData">>)

\* C7 amended: as C7, except that a tick without an analyser skips the fetch;
\* the data array then holds the fetched frame, and the glow is the strategy's
\* (the reset came before it), or 0 when the strategy raised.
C7_StepsInOrder ==
    Ticked =>
        /\ StepsInOrder(IF ~analyser THEN << >>
                        ELSE IF frame.mode = "waveform" THEN <<"getByteTimeDomainData">>
                        ELSE <<"getByteFrequencyData">>)
        /\ analyser => dataArray = IF frame.mode = "waveform" THEN TimeFrame(audio)
                                   ELSE FreqFrame(audio)
        /\ frame.threw <=> ~analyser
        /\ shadowBlur = CASE frame.threw -> 0
                          [] frame.mode = "bars" -> 15
                          [] frame.mode = "circular" -> 10
                          [] frame.mode = "waveform" -> 20
                          [] OTHER -> IF particles = << >> THEN 0 ELSE 15

\* C7 happens: a waveform tick fetched time-domain data and drew
C7_Witness ==
    /\ frame.mode = "waveform" /\ ~frame.threw /\ shadowBlur = 20
    /\ audio = "loud" /\ dataArray = TimeFrame("loud")

\* the sample array the strategy of the last tick drew
Drawn == IF frame.mode = "waveform" THEN dataArray ELSE currentVisualData

\* C8: every colour a tick uses is the colour of the value at that index of
\* the sample array the tick's strategy draws.
C8_ColorsFromDrawnSamples ==
    Ticked /\ ~frame.threw =>
        \A k \in 1..Len(frame.colors) :
            LET c == frame.colors[k]
            IN  SameColor(c.color,
                          colorFor(c.index, c.total,
                                   IF c.index \in DOMAIN Drawn THEN Drawn[c.index] ELSE 0,
                                   frame.scheme))

\* C10: a particle-field tick pushes at most 3 particles, each for a sampled
\* value above 80, and none when the pool held 100 or more at spawn time; the
\* pool changes by exactly the pushed and the removed particles.
C10_SpawnRules ==
    Ticked /\ frame.mode = "particles" /\ ~frame.threw =>
        /\ Pushed <= 3
        /\ \A k \in 1..Len(frame.log) : frame.log[k].pushed => frame.log[k].value > 80
        /\ frame.sizeBefore >= 100 => Pushed = 0
        /\ Len(particles) + Len(frame.culled) = frame.sizeBefore + Pushed

\* C10 happens: a particle-field tick ran with the pool at or above the cap
C10_Witness ==
    Ticked /\ frame.mode = "particles" /\ ~frame.threw /\ frame.sizeBefore >= 100

\* the last run of animate was a particle-field tick that drew
ParticleTick == Ticked /\ frame.mode = "particles" /\ ~frame.threw

\* C12: at the end of a particle-field tick every particle of the pool has
\* 0 < life <= 1 and y <= surface height; every particle the tick removed had
\* life <= 0 or y > surface height after its update; the pool lost exactly
\* the removed particles.
C12_PoolAliveOnSurface ==
    ParticleTick =>
        /\ \A i \in 1..Len(particles) :
              /\ particles[i].life > 0 /\ particles[i].life <= 100
              /\ particles[i].y <= 10 * canvas.height
        /\ \A k \in 1..Len(frame.culled) :
              frame.culled[k].life <= 0 \/ frame.culled[k].y > 10 * canvas.height
        /\ Len(particles) = frame.sizeBefore + Pushed - Len(frame.culled)

\* C12 happens: a tick removed a particle that fell below the surface with
\* life left, and kept others
C12_Witness ==
    /\ ParticleTick /\ Len(particles) > 0
    /\ \E k \in 1..Len(frame.culled) :
          frame.culled[k].life > 0 /\ frame.culled[k].y > 10 * canvas.height

\* the sequence s in reverse order
Reverse(s) == [k \in 1..Len(s) |-> s[Len(s) + 1 - k]]

\* C13: in a particle-field tick the pool is first extended by the spawned
\* particles; then every particle of the extended pool is updated exactly once
\* (x += vx, y += vy with the old vy, vy += 0.1, life -= 0.01); the pool after
\* the tick is the updated particles that are not removed, in their order, and
\* the removed ones are the rest.
C13_OneUpdateEach ==
    [][frame'.mode = "particles" /\ ~frame'.threw =>
         \A sp \in {spawn(particles, rng, currentVisualData', dataArray', bufferLength,
                           colorScheme).ps} :
         \A upd \in {[k \in 1..Len(sp) |->
                         [x |-> sp[k].x + sp[k].vx, y |-> sp[k].y + sp[k].vy,
                          vx |-> sp[k].vx, vy |-> sp[k].vy + 1, size |-> sp[k].size,
                          color |-> sp[k].color, life |-> sp[k].life - 1,
                          age |-> sp[k].age + 1]]} :
             LET gone(p) == p.life <= 0 \/ p.y > 10 * canvas.height
             IN  /\ SubSeq(sp, 1, Len(particles)) = particles
                 /\ Len(sp) = Len(particles) + Cardinality({k \in 1..Len(frame'.log) :
                                                               frame'.log[k].pushed})
                 /\ particles' = SelectSeq(upd, LAMBDA p : ~gone(p))
                 /\ frame'.culled = Reverse(SelectSeq(upd, gone))
    ]_vars

\* C13 happens: a tick spawned a particle and updated it (one update), and it
\* removed a particle that lies above an older particle, which it kept
C13_Witness ==
    /\ ParticleTick /\ Pushed > 0
    /\ \E i \in 1..Len(particles) : particles[i].age = 1
    /\ \E k \in 1..Len(frame.culled) : \E i \in 1..Len(particles) :
          particles[i].age > frame.culled[k].age

\* C14: in a bars tick every bar that is painted (it has a height) is
\* painted with the glow on and the glow's colour equal to the base colour
\* of its own gradient, the colour of its index.
C14_GlowMatchesBar ==
    Ticked /\ frame.mode = "bars" /\ ~frame.threw =>
        \A k \in 1..Len(paints) :
            paints[k].value > 0 =>
                /\ paints[k].blur > 0
                /\ SameColor(paints[k].shadow, paints[k].base)

----------------------------------------------------------------------------
(* The reducer on its own: getVisualData applied to every raw frame of up   *)
(* to MaxFrameLen bytes drawn from SampleBytes                              *)

\* bytes on both sides of the truncation (odd values) and of the clamp (170)
SampleBytes == {0, 1, 54, 169, 171, 255}

InitReducer ==
    /\ analyser = TRUE
    /\ bufferLength \in 0..MaxFrameLen
    /\ dataArray \in [0..(bufferLength - 1) -> SampleBytes]
    /\ currentVisualData = << >>
    /\ visualMode = "bars"
    /\ colorScheme = "rainbow"
    /\ particles = << >>
    /\ shadowBlur = 0
    /\ rafPending = 0
    /\ audio = "silence"
    /\ rng \in [x : {0}, c : Strides]
    /\ frame = NoFrame
    /\ switched = "no"
    /\ changes = 0
    /\ poolAge = 0
    /\ canvas = [width |-> canvasWidth, height |-> canvasHeight]
    /\ shadowColor = defaultShadowColor
    /\ plotted = NoPlot
    /\ paints = << >>
    /\ quiet = 0
    /\ SetupSource /\ mediaDevices = TRUE /\ contextState = "suspended"

\* one call of getVisualData (lines 660-674)
Reduce ==
    /\ frame.mode = "none"
    /\ currentVisualData' = getVisualData(dataArray, bufferLength)
    /\ frame' = [NoFrame EXCEPT !.mode = "getVisualData"]
    /\ UNCHANGED <<analyser, bufferLength, dataArray, visualMode, colorScheme, particles,
                   shadowBlur, rafPending, audio, rng, switched, changes, poolAge>>
    /\ UNCHANGED <<surfaceVars, quiet, sourceVars>>

NextReducer == Reduce

SpecReducer == InitReducer /\ [][NextReducer]_vars

Reduced == frame.mode = "getVisualData"

\* C4 as stated: 128 elements in [0,255], element i equal to
\* min(255, raw[floor(i/128 * M/2)] * 1.5), for every frame of length M >= 2.
C4_ExactAmplification ==
    Reduced /\ bufferLength >= 2 =>
        /\ DOMAIN currentVisualData = 0..127
        /\ \A i \in 0..127 :
              2 * currentVisualData[i]
                  = Min(510, 3 * dataArray[(i * bufferLength) \div 256])

\* C4 amended: element i is min(255, raw[j] * 1.5) rounded down to a whole
\* byte, where j = floor(i/128 * M/2) lies in the lower half [0, M/2).
C4_TruncatedAmplification ==
    Reduced /\ bufferLength >= 2 =>
        /\ DOMAIN currentVisualData = 0..127
        /\ \A i \in 0..127 :
              /\ currentVisualData[i] \in 0..255
              /\ \E j \in 0..(bufferLength - 1) :
                    /\ 256 * j <= i * bufferLength
                    /\ i * bufferLength < 256 * (j + 1)
                    /\ 2 * j < bufferLength
                    /\ 2 * currentVisualData[i] <= Min(510, 3 * dataArray[j])
                    /\ Min(510, 3 * dataArray[j]) < 2 * currentVisualData[i] + 2

\* C4 happens: a frame of two different halves was reduced, one value
\* truncated (169 * 1.5 = 253.5) and one clamped (171 * 1.5 = 256.5)
C4_Witness ==
    /\ Reduced /\ bufferLength = 4
    /\ dataArray[0] = 169 /\ dataArray[1] = 171 /\ dataArray[2] = 0
    /\ currentVisualData[0] = 253 /\ currentVisualData[127] = 255

----------------------------------------------------------------------------
(* The colour mapper on its own: getColor applied after the reducer to      *)
(* every index, for every signal kind and every scheme value                *)

InitColor ==
    /\ analyser = TRUE
    /\ bufferLength = frequencyBinCount
    /\ audio \in AudioKinds \cup {"ramp"}
    /\ dataArray = FreqFrame(audio)
    /\ currentVisualData = getVisualData(dataArray, bufferLength)
    /\ visualMode = "bars"
    /\ colorScheme \in Schemes \cup {OtherScheme}
    /\ particles = << >>
    /\ shadowBlur = 0
    /\ rafPending = 0
    /\ rng \in [x : {0}, c : Strides]
    /\ frame = NoFrame
    /\ switched = "no"
    /\ changes = 0
    /\ poolAge = 0
    /\ canvas = [width |-> canvasWidth, height |-> canvasHeight]
    /\ shadowColor = defaultShadowColor
    /\ plotted = NoPlot
    /\ paints = << >>
    /\ quiet = 0
    /\ SetupSource /\ mediaDevices = TRUE /\ contextState = "suspended"

\* one call getColor(index, total), with the totals the strategies pass
MapColor ==
    /\ frame.mode = "none"
    /\ \E total \in {sampleSize, bufferLength} :
       \E index \in IF total = sampleSize THEN 0..(sampleSize - 1)
                    ELSE {0, total \div 2, total - 1} :
          frame' = [NoFrame EXCEPT
                       !.mode = "getColor", !.scheme = colorScheme, !.total = total,
                       !.colors = <<ColorCall(index, total, currentVisualData, dataArray,
                                              bufferLength, colorScheme)>>]
    /\ UNCHANGED <<analyser, bufferLength, dataArray, currentVisualData, visualMode,
                   colorScheme, particles, shadowBlur, rafPending, audio, rng, switched,
                   changes, poolAge>>
    /\ UNCHANGED <<surfaceVars, quiet, sourceVars>>

NextColor == MapColor

SpecColor == InitColor /\ [][NextColor]_vars

\* the fraction f (a pair) has the value n/d
IsFrac(f, n, d) == f[1] * d = n * f[2] /\ f[2] > 0

\* the colour hsl(h, s%, l%) with h = hn/hd and l = ln/ld
IsHsl(c, hn, hd, s, ln, ld) ==
    c.fmt = "hsl" /\ IsFrac(c.c1, hn, hd) /\ IsFrac(c.c2, s, 1) /\ IsFrac(c.c3, ln, ld)

\* the colour rgb(r, g, b)
IsRgb(c, r, g, b) ==
    c.fmt = "rgb" /\ IsFrac(c.c1, r, 1) /\ IsFrac(c.c2, g, 1) /\ IsFrac(c.c3, b, 1)

\* the sample value getColor is to use for an index: the reduced sample
ValueAt(index) == IF index \in DOMAIN currentVisualData THEN currentVisualData[index] ELSE 0

\* C9: getColor returns the colour of the per-scheme table (intensity = value/255):
\* rainbow hsl(360*index/total, 100%, 60+40*intensity), fire hsl(60*intensity,
\* 100%, 50+40*intensity), ocean hsl(180+60*intensity, 90%, 50+40*intensity),
\* neon by index mod 3, purple hsl(270+60*intensity, 90%, 50+40*intensity), any
\* other scheme hsl(360*index/total, 100%, 50%); 255 at index 0 under fire
\* gives hue 60 and lightness 90%.
C9_SchemeTable ==
    frame.mode = "getColor" =>
        \A k \in 1..Len(frame.colors) :
            LET e == frame.colors[k]
                v == ValueAt(e.index)
                c == e.color
            IN  /\ colorScheme = "rainbow" =>
                      IsHsl(c, 360 * e.index, e.total, 100, 60 * 255 + 40 * v, 255)
                /\ colorScheme = "fire" =>
                      IsHsl(c, 60 * v, 255, 100, 50 * 255 + 40 * v, 255)
                /\ colorScheme = "ocean" =>
                      IsHsl(c, 180 * 255 + 60 * v, 255, 90, 50 * 255 + 40 * v, 255)
                /\ colorScheme = "neon" =>
                      CASE e.index % 3 = 0 -> IsRgb(c, v, 0, v)
                        [] e.index % 3 = 1 -> IsRgb(c, 0, v, v)
                        [] OTHER -> IsRgb(c, v, v, 0)
                /\ colorScheme = "purple" =>
                      IsHsl(c, 270 * 255 + 60 * v, 255, 90, 50 * 255 + 40 * v, 255)
                /\ colorScheme \notin Schemes =>
                      IsHsl(c, 360 * e.index, e.total, 100, 50, 1)
                /\ colorScheme = "fire" /\ audio = "impulse" /\ e.index = 0 =>
                      SameColor(c, Color("hsl", <<60, 1>>, <<100, 1>>, <<90, 1>>))

\* C9 happens: the frame with 255 at index 0 was mapped at index 0 under fire
C9_Witness ==
    /\ frame.mode = "getColor" /\ colorScheme = "fire" /\ dataArray[0] = 255
    /\ \E k \in 1..Len(frame.colors) :
          /\ frame.colors[k].index = 0 /\ frame.colors[k].total = 128
          /\ SameFrac(frame.colors[k].color.c1, <<60, 1>>)

----------------------------------------------------------------------------
(* The waveform strategy on its own: drawWaveform applied to every raw      *)
(* frame of up to MaxFrameLen bytes drawn from WaveBytes, on surfaces of    *)
(* several heights and of the widths the resize listener sets               *)

\* the mid value and both ends of a byte
WaveBytes == {0, 128, 255}

\* surface heights, an odd one among them
Heights == {1, canvasHeight, canvasHeight + 1}

\* values of window.innerWidth when the window is resized
InnerWidths == {100, 400, 1100, 2000}

\* line 429: Math.min(window.innerWidth - 100, 1000)
resizeWidth(innerWidth) == Min(innerWidth - 100, canvasWidth)

InitWaveform ==
    /\ analyser = TRUE
    /\ bufferLength \in 1..MaxFrameLen
    /\ dataArray \in [0..(bufferLength - 1) -> WaveBytes]
    /\ currentVisualData = << >>
    /\ visualMode = "waveform"
    /\ colorScheme = "rainbow"
    /\ particles = << >>
    /\ shadowBlur = 0
    /\ rafPending = 0
    /\ audio = "silence"
    /\ rng \in [x : {0}, c : {3}]
    /\ frame = NoFrame
    /\ switched = "no"
    /\ changes = 0
    /\ poolAge = 0
    /\ canvas \in [width : {canvasWidth}, height : Heights]
    /\ shadowColor = defaultShadowColor
    /\ plotted = NoPlot
    /\ paints = << >>
    /\ quiet = 0
    /\ SetupSource /\ mediaDevices = TRUE /\ contextState = "suspended"

\* one call of drawWaveform (lines 783-830)
PlotWaveform ==
    /\ frame.mode = "none"
    /\ \E out \in {drawWaveform(analyser, currentVisualData, dataArray, bufferLength,
                                 colorScheme, particles, shadowBlur)} :
          /\ shadowBlur' = out.blur
          /\ shadowColor' = shadowColorAfter("waveform", out, shadowColor, dataArray,
                                             bufferLength, colorScheme)
          /\ frame' = [NoFrame EXCEPT !.mode = "drawWaveform", !.scheme = colorScheme,
                                      !.colors = out.colors, !.total = bufferLength]
    /\ plotted' = waveformPoints(dataArray, bufferLength, canvas)
    /\ UNCHANGED <<analyser, bufferLength, dataArray, currentVisualData, visualMode,
                   colorScheme, particles, rafPending, audio, rng, switched, changes,
                   poolAge, canvas, paints, quiet, sourceVars>>

\* The 'resize' listener of the window, lines 428-431.  Assigning
\* canvas.width clears the surface and resets the context's drawing state.
Resize ==
    /\ \E w \in InnerWidths : canvas' = [canvas EXCEPT !.width = resizeWidth(w)]
    /\ shadowBlur' = 0
    /\ shadowColor' = defaultShadowColor
    /\ frame' = NoFrame
    /\ plotted' = NoPlot
    /\ UNCHANGED <<analyser, bufferLength, dataArray, currentVisualData, visualMode,
                   colorScheme, particles, rafPending, audio, rng, switched, changes,
                   poolAge, paints, quiet, sourceVars>>

NextWaveform == PlotWaveform \/ Resize

SpecWaveform == InitWaveform /\ [][NextWaveform]_vars

\* drawWaveform has just plotted its two polylines
Plotted == Len(plotted.main) > 0

\* every byte of the data array is 128
MidFrame == \A j \in 0..(bufferLength - 1) : dataArray[j] = 128

\* C11: for a frame whose every value is 128, every point of the main
\* polyline and of the mirrored polyline has y = height / 2, one point per
\* frame value, whatever the surface's width and height.
C11_FlatCenterline ==
    Plotted /\ MidFrame =>
        /\ Len(plotted.main) = bufferLength /\ Len(plotted.mirror) = bufferLength
        /\ \A k \in 1..bufferLength :
              /\ plotted.main[k].i = k - 1 /\ plotted.mirror[k].i = k - 1
              /\ SameFrac(plotted.main[k].y, <<canvas.height, 2>>)
              /\ SameFrac(plotted.mirror[k].y, <<canvas.height, 2>>)

\* C11 happens: a frame of several 128s was plotted on a resized surface of
\* odd height
C11_Witness ==
    /\ Plotted /\ MidFrame /\ bufferLength >= 2
    /\ canvas.height = canvasHeight + 1 /\ canvas.width = 300
    /\ SameFrac(plotted.mirror[bufferLength].y, <<canvasHeight + 1, 2>>)

----------------------------------------------------------------------------
(* The audio source: loadAudioFile, connectAudioSource, play, pause,        *)
(* toggleMicrophone, startMicrophone and stopMicrophone (lines 523-658).    *)
(* startMicrophone is an async function: it runs up to an await, and the    *)
(* rest runs as a later step, after any listener that was called meanwhile. *)

\* the fields the source operations read and write, as one record
Src ==
    [audioSourceConnected |-> audioSourceConnected, microphoneStream |-> microphoneStream,
     currentSource |-> currentSource, audioSource |-> audioSource, graph |-> graph,
     liveStreams |-> liveStreams, elementNode |-> elementNode, paused |-> paused]

\* the fields take the values of the record st
SetSrc(st) ==
    /\ audioSourceConnected' = st.audioSourceConnected
    /\ microphoneStream' = st.microphoneStream
    /\ currentSource' = st.currentSource
    /\ audioSource' = st.audioSource
    /\ graph' = st.graph
    /\ liveStreams' = st.liveStreams
    /\ elementNode' = st.elementNode
    /\ paused' = st.paused

\* what a call of startMicrophone is compared with when it has ended
Snapshot ==
    [audioSourceConnected |-> audioSourceConnected, microphoneStream |-> microphoneStream,
     currentSource |-> currentSource, graph |-> graph]

\* stopMicrophone, lines 631-658: stop the tracks of the held stream,
\* disconnect this.audioSource, clear the three fields
stopMicrophone(st) ==
    IF st.microphoneStream = 0 THEN st
    ELSE [st EXCEPT !.liveStreams = @ \ {st.microphoneStream},
                    !.microphoneStream = 0,
                    !.graph = IF st.audioSource # NoNode THEN @ \ {st.audioSource} ELSE @,
                    !.audioSource = NoNode,
                    !.currentSource = "null"]

\* connectAudioSource, lines 534-555; throws tells whether
\* createMediaElementSource raised (caught on line 551)
connectAudioSource(st, hasContext, throws) ==
    IF st.audioSourceConnected \/ ~hasContext THEN st
    ELSE LET stopped == stopMicrophone(st)
         IN  IF throws THEN stopped
             ELSE [stopped EXCEPT !.elementNode = TRUE,
                                  !.audioSource = FileNode,
                                  !.graph = @ \cup {FileNode},
                                  !.audioSourceConnected = TRUE,
                                  !.currentSource = "file"]

\* createMediaElementSource can raise only for an element that already has a
\* source node (InvalidStateError); it then depends on the browser
CreateRaises(st) == IF st.elementNode THEN BOOLEAN ELSE {FALSE}

\* startMicrophone from line 590 up to the call of getUserMedia: pause the
\* element, disconnect the file source
beforeGetUserMedia(st) ==
    LET st1 == [st EXCEPT !.paused = TRUE]
    IN  IF st1.audioSourceConnected /\ st1.audioSource # NoNode
        THEN [st1 EXCEPT !.graph = @ \ {st1.audioSource}, !.audioSourceConnected = FALSE]
        ELSE st1

\* startMicrophone from line 603 on, with the granted stream id
afterGetUserMedia(st, id) ==
    [st EXCEPT !.microphoneStream = id,
               !.liveStreams = @ \cup {id},
               !.graph = @ \cup {MicNode(id)},
               !.currentSource = "microphone",
               !.audioSource = MicNode(id)]

\* a listener ran while the calls were suspended
disturbed(calls) == [k \in 1..Len(calls) |-> [calls[k] EXCEPT !.clean = FALSE]]

\* calls without its k-th element
without(calls, k) == SubSeq(calls, 1, k - 1) \o SubSeq(calls, k + 1, Len(calls))

InitSource ==
    /\ analyser \in BOOLEAN
    /\ bufferLength = IF analyser THEN frequencyBinCount ELSE 0
    /\ dataArray = IF analyser THEN [j \in 0..(frequencyBinCount - 1) |-> 0] ELSE << >>
    /\ currentVisualData = << >>
    /\ visualMode = "bars"
    /\ colorScheme = "rainbow"
    /\ particles = << >>
    /\ shadowBlur = 0
    /\ rafPending = 0
    /\ audio = "silence"
    /\ rng \in [x : {0}, c : {3}]
    /\ frame = NoFrame
    /\ switched = "no"
    /\ changes = 0
    /\ poolAge = 0
    /\ canvas = [width |-> canvasWidth, height |-> canvasHeight]
    /\ shadowColor = defaultShadowColor
    /\ plotted = NoPlot
    /\ paints = << >>
    /\ quiet = 0
    /\ SetupSource
    /\ mediaDevices \in BOOLEAN
    /\ contextState \in {"suspended", "running"}

\* the source steps leave the render pipeline alone
PipelineUnchanged ==
    UNCHANGED <<analyser, bufferLength, dataArray, currentVisualData, visualMode, colorScheme,
                particles, shadowBlur, rafPending, audio, rng, frame, switched, changes,
                poolAge, surfaceVars, quiet>>

\* loadAudioFile, lines 523-532 (a file chosen or dropped): assigning
\* audio.src pauses the element; then connectAudioSource
LoadAudioFile ==
    /\ \E throws \in CreateRaises(Src) :
          SetSrc(connectAudioSource([Src EXCEPT !.paused = TRUE], analyser, throws))
    /\ loaded' = TRUE
    /\ micCalls' = disturbed(micCalls)
    /\ micResult' = NoResult
    /\ UNCHANGED <<mediaDevices, contextState, streams>>
    /\ PipelineUnchanged

\* play, lines 557-563 (the play button, once a file is loaded)
Play ==
    /\ loaded
    /\ contextState' = IF analyser THEN "running" ELSE contextState
    /\ paused' = FALSE
    /\ micCalls' = disturbed(micCalls)
    /\ micResult' = NoResult
    /\ UNCHANGED <<audioSourceConnected, microphoneStream, currentSource, audioSource, graph,
                   liveStreams, elementNode, mediaDevices, loaded, streams>>
    /\ PipelineUnchanged

\* pause, lines 565-567
Pause ==
    /\ ~paused
    /\ paused' = TRUE
    /\ micCalls' = disturbed(micCalls)
    /\ micResult' = NoResult
    /\ UNCHANGED <<audioSourceConnected, microphoneStream, currentSource, audioSource, graph,
                   liveStreams, elementNode, mediaDevices, contextState, loaded, streams>>
    /\ PipelineUnchanged

\* toggleMicrophone, lines 569-575 (a click on the microphone button), with
\* the part of startMicrophone that runs before its first await
ToggleMicrophone ==
    /\ IF microphoneStream # 0
       THEN \* stopMicrophone
            /\ SetSrc(stopMicrophone(Src))
            /\ micCalls' = disturbed(micCalls)
            /\ micResult' = NoResult
       ELSE IF ~mediaDevices
       THEN \* lines 580-583: alert and return
            /\ SetSrc(Src)
            /\ micCalls' = disturbed(micCalls)
            /\ micResult' = [outcome |-> "unsupported", before |-> Snapshot]
       ELSE IF ~analyser
       THEN \* line 586 raises on the undefined this.audioContext; caught on line 619
            /\ SetSrc(Src)
            /\ micCalls' = disturbed(micCalls)
            /\ micResult' = [outcome |-> "threw", before |-> Snapshot]
       ELSE IF contextState = "suspended"
       THEN \* line 587: await this.audioContext.resume()
            /\ Len(micCalls) < MaxMicCalls
            /\ SetSrc(Src)
            /\ micCalls' = Append(disturbed(micCalls),
                                  [pc |-> "resume", before |-> Snapshot, clean |-> TRUE])
            /\ micResult' = NoResult
       ELSE \* lines 590-602: up to await getUserMedia(..)
            /\ Len(micCalls) < MaxMicCalls
            /\ SetSrc(beforeGetUserMedia(Src))
            /\ micCalls' = Append(disturbed(micCalls),
                                  [pc |-> "getUserMedia", before |-> Snapshot, clean |-> TRUE])
            /\ micResult' = NoResult
    /\ UNCHANGED <<mediaDevices, contextState, loaded, streams>>
    /\ PipelineUnchanged

\* the k-th suspended call, with the others marked as disturbed
others(k) == [j \in 1..Len(micCalls) |->
                 IF j = k THEN micCalls[j] ELSE [micCalls[j] EXCEPT !.clean = FALSE]]

\* resume() has resolved for a suspended call: it goes on to getUserMedia
ResumeResolved ==
    /\ \E k \in 1..Len(micCalls) :
          /\ micCalls[k].pc = "resume"
          /\ micCalls' = [others(k) EXCEPT ![k].pc = "getUserMedia"]
    /\ contextState' = "running"
    /\ SetSrc(beforeGetUserMedia(Src))
    /\ micResult' = NoResult
    /\ UNCHANGED <<mediaDevices, loaded, streams>>
    /\ PipelineUnchanged

\* getUserMedia has resolved with a new stream: lines 603-618
MicGranted ==
    /\ streams < MaxStreams
    /\ \E k \in 1..Len(micCalls) :
          /\ micCalls[k].pc = "getUserMedia"
          /\ micCalls' = without(others(k), k)
          /\ micResult' = [outcome |-> IF micCalls[k].clean THEN "granted"
                                       ELSE "granted late",
                           before |-> micCalls[k].before]
    /\ streams' = streams + 1
    /\ SetSrc(afterGetUserMedia(Src, streams + 1))
    /\ UNCHANGED <<mediaDevices, contextState, loaded>>
    /\ PipelineUnchanged

\* getUserMedia has rejected (permission denied, no device): lines 619-628
MicRejected ==
    /\ \E k \in 1..Len(micCalls) :
          /\ micCalls[k].pc = "getUserMedia"
          /\ micCalls' = without(others(k), k)
          /\ micResult' = [outcome |-> IF micCalls[k].clean THEN "rejected"
                                       ELSE "rejected late",
                           before |-> micCalls[k].before]
    /\ SetSrc(Src)
    /\ UNCHANGED <<mediaDevices, contextState, loaded, streams>>
    /\ PipelineUnchanged

NextSource ==
    \/ LoadAudioFile \/ Play \/ Pause \/ ToggleMicrophone
    \/ ResumeResolved \/ MicGranted \/ MicRejected

SpecSource == InitSource /\ [][NextSource]_vars

\* C15: at most one source node is connected to the analyser, and no
\* microphone stream is live except the one held in microphoneStream.
C15_OneSourceConnected ==
    /\ Cardinality(graph) <= 1
    /\ liveStreams \subseteq (IF microphoneStream = 0 THEN {} ELSE {microphoneStream})

\* C16: when a call of startMicrophone has failed (no getUserMedia, an error
\* raised, or the request rejected) and no other listener ran during it, the
\* analyser's sources, audioSourceConnected, currentSource and microphoneStream
\* are what they were before the call, and microphoneStream is null.
C16_FailedStartKeepsSource ==
    micResult.outcome \in {"unsupported", "threw", "rejected"} =>
        /\ Snapshot = micResult.before
        /\ microphoneStream = 0

----------------------------------------------------------------------------
(* The particle pool under a signal that falls silent: a loud signal fills  *)
(* the pool, then the signal changes to one whose visual samples are all at *)
(* or below the spawn threshold, while the pool still holds particles       *)

\* signals none of whose visual samples exceeds the threshold: silence, and
\* "soft", whose every sample is 79 (53 * 1.5 rounded down)
QuietKinds == {"silence", "soft"}

\* the model's state when the page has been constructed next to a loud source
InitQuiet ==
    /\ analyser \in BOOLEAN
    /\ bufferLength = IF analyser THEN frequencyBinCount ELSE 0
    /\ dataArray = IF analyser THEN [j \in 0..(frequencyBinCount - 1) |-> 0] ELSE << >>
    /\ currentVisualData = << >>
    /\ visualMode = "bars"
    /\ colorScheme = "rainbow"
    /\ particles = << >>
    /\ shadowBlur = 0
    /\ rafPending = 0
    /\ audio = "loud"
    /\ rng \in [x : {0, 5}, c : {3}]
    /\ frame = NoFrame
    /\ switched = "no"
    /\ changes = 0
    /\ poolAge = 0
    /\ canvas = [width |-> canvasWidth, height |-> canvasHeight]
    /\ shadowColor = defaultShadowColor
    /\ plotted = NoPlot
    /\ paints = << >>
    /\ quiet = 0
    /\ SetupSource /\ mediaDevices = TRUE /\ contextState = "suspended"

\* One run of animate; quiet counts the particle-field ticks under a quiet
\* signal that have followed one another with no listener run in between.
AnimateQuiet ==
    /\ audio \notin QuietKinds => poolAge < MaxLoudTicks
    /\ Tick
    /\ quiet' = IF visualMode = "particles" /\ audio \in QuietKinds
                THEN (IF frame.mode = "none" THEN 1 ELSE Min(quiet + 1, MaxQuietTicks))
                ELSE 0

\* The signal at the analyser falls silent between two frames, whatever the
\* pool holds.
FallSilent ==
    /\ rafPending > 0
    /\ changes < MaxChanges
    /\ audio \notin QuietKinds
    /\ \E k \in QuietKinds : audio' = k
    /\ changes' = changes + 1
    /\ frame' = NoFrame
    /\ plotted' = NoPlot /\ paints' = << >>
    /\ UNCHANGED <<analyser, bufferLength, dataArray, currentVisualData, visualMode,
                   colorScheme, particles, shadowBlur, rafPending, rng, switched, poolAge>>
    /\ UNCHANGED <<canvas, shadowColor, quiet, sourceVars>>

\* The mode selector is used while the pool is empty and before the silent
\* ticks have begun: from then on the mode stays particle-field.
EnterMode == particles = << >> /\ quiet = 0 /\ VisualModeChange

NextQuiet == AnimateQuiet \/ EnterMode \/ FallSilent

SpecQuiet == InitQuiet /\ [][NextQuiet]_vars

\* C17: while the mode stays particle-field and the signal stays quiet, no
\* tick adds a particle, the pool is empty after at most 100 such ticks, and
\* a pool that is empty stays empty.
C17_QuietPoolEmpties ==
    quiet > 0 =>
        /\ Pushed = 0
        /\ \A k \in 1..Len(frame.log) : frame.log[k].value <= spawnThreshold
        /\ Len(particles) <= frame.sizeBefore
        /\ quiet >= 100 => particles = << >>

\* C17 happens: the signal fell silent over a full pool, and the 99th silent
\* tick removed the last particles
C17_Witness ==
    /\ quiet = 99 /\ particles = << >> /\ frame.sizeBefore > 0
    /\ \E k \in 1..Len(frame.culled) : frame.culled[k].age = 100

====
